---- MODULE Spec2Model ----
(***************************************************************************)
(* Model of the production-plan dispatcher (app/services/dispatch.py) and  *)
(* of the HTTP handler that calls it (app/api/production_plan.py).         *)
(*                                                                         *)
(* Representation of the floats of the program:                            *)
(*   - a power in MW is an integer number of hundredths of a MW;           *)
(*   - an efficiency is an integer number of tenths;                       *)
(*   - a cost per unit is an integer number of hundredths of a euro, so    *)
(*     that fuel_price / efficiency + 0.3 * co2 is exact on the modelled   *)
(*     inputs;                                                             *)
(*   - math.inf is the value Inf, handled by CostAdd and MinCost.          *)
(***************************************************************************)
EXTENDS Integers, Sequences, FiniteSets

VARIABLES
    payload,            \* the ProductionPlanRequest: load, fuels, powerplants
    handler,            \* position of calculate_production_plan
    completed_logged,   \* "Production plan computation completed" was logged
    pc,                 \* position of the body of build_production_plan
    specs,              \* tuple(_build_specs(...))
    load_units,         \* _to_units(payload.load)
    sorted_specs,       \* _sort_specs_by_cost_and_capacity(specs)
    min_cost_evaluated, \* min_cost has been called at least once
    assignment_units,   \* what _solve_dispatch yields, in sorted order
    remaining,          \* the walk's remaining load after the last plant
    units_by_index,     \* original_index -> units
    plan,               \* the PowerDispatch entries yielded so far
    error,              \* the DispatchComputationError raised, or "none"
    error_in_try        \* the error was raised inside the handler's try block

vars == <<payload, handler, completed_logged, pc, specs, load_units,
          sorted_specs, min_cost_evaluated, assignment_units, remaining,
          units_by_index, plan, error, error_in_try>>

----------------------------------------------------------------------------
(* Bounds of the model and the input values the requests are drawn from.   *)

MaxPlants == 3
MaxLoad == 3

PlantCounts == 1..MaxPlants
LoadValues == {10 * k : k \in 1..MaxLoad}     \* load > 0, hundredths of a MW
PminValues == {0, 20}                         \* pmin >= 0
PmaxValues == {10, 20}                        \* pmax > 0
EfficiencyValues == {5}                       \* efficiency > 0, in tenths
GasPrices == {2}
KerosinePrices == {3}
Co2Prices == {10}
WindPercentages == {50, 100}

----------------------------------------------------------------------------
(* Program constants.                                                      *)

UNIT_SCALE == 10
GAS == "gasfired"
TURBO == "turbojet"
WIND == "windturbine"
PowerPlantType == {GAS, TURBO, WIND}
WIND_MARGINAL_COST == 0
Inf == -1

CapacityExceededMsg == "Requested load exceeds available capacity."
UnsatisfiableMsg == "Unable to satisfy load with provided fleet configuration."

----------------------------------------------------------------------------
(* Helpers.                                                                *)

Max(a, b) == IF a >= b THEN a ELSE b
Min(a, b) == IF a <= b THEN a ELSE b

RECURSIVE SumSeq(_)
SumSeq(s) == IF s = <<>> THEN 0 ELSE Head(s) + SumSeq(Tail(s))

SetMin(S) == CHOOSE x \in S : \A y \in S : x <= y

\* float arithmetic on costs, with math.inf
CostAdd(a, b) == IF a = Inf \/ b = Inf THEN Inf ELSE a + b

\* math.isclose(a, b, rel_tol=1e-9, abs_tol=1e-6): inf is close to inf only;
\* two finite modelled costs differ by at least one hundredth of a euro or
\* not at all, so within the tolerances means equal.
IsClose(a, b) == a = b

----------------------------------------------------------------------------
(* Unit converter.  A value in MW is the rational num / den.               *)

\* int(round((value + 1e-9) * UNIT_SCALE)): the epsilon makes a value exactly
\* halfway between two units round up.
ToUnits(num, den) == (2 * UNIT_SCALE * num + den) \div (2 * den)

\* round(units / UNIT_SCALE + 1e-9, 1), in hundredths of a MW
FromUnits(units) == (units * 100) \div UNIT_SCALE

----------------------------------------------------------------------------
(* Plant spec builder.                                                     *)

\* MW as (num, den): plant.pmax * (wind_percentage / 100.0) for wind
EffectiveMaxOutputNum(plant, fuels) ==
    LET max_output == IF plant.type = WIND THEN plant.pmax * fuels.wind_percentage
                      ELSE plant.pmax * 100
    IN  Max(0, max_output)

EffectiveMaxOutputDen == 100 * 100

\* euro per MWh, in tenths of a euro
MarginalCost(plant, fuels) ==
    IF plant.type = WIND THEN WIND_MARGINAL_COST
    ELSE LET fuel_price == IF plant.type = GAS THEN fuels.gas_euro_mwh
                           ELSE fuels.kerosine_euro_mwh
             co2_component == 3 * fuels.co2_euro_ton
         IN  (100 * fuel_price) \div plant.efficiency + co2_component

BuildSpec(index, plant, fuels) ==
    LET min_output == IF plant.type # WIND THEN plant.pmin ELSE 0
    IN  [original_index |-> index,
         name |-> plant.name,
         type |-> plant.type,
         min_units |-> ToUnits(min_output, 100),
         max_units |-> ToUnits(EffectiveMaxOutputNum(plant, fuels), EffectiveMaxOutputDen),
         \* cost_per_mwh / UNIT_SCALE, in hundredths of a euro
         cost_per_unit |-> (MarginalCost(plant, fuels) * 10) \div UNIT_SCALE]

\* enumerate() counts from 0
BuildSpecs(powerplants, fuels) ==
    [i \in 1..Len(powerplants) |-> BuildSpec(i - 1, powerplants[i], fuels)]

TotalCapacity(ss) == SumSeq([i \in 1..Len(ss) |-> ss[i].max_units])

----------------------------------------------------------------------------
(* Merit-order sort.                                                       *)

\* operator.attrgetter("cost_per_unit", "max_units") compared as tuples
SortKeyLess(a, b) ==
    \/ a.cost_per_unit < b.cost_per_unit
    \/ a.cost_per_unit = b.cost_per_unit /\ a.max_units < b.max_units

\* sorted() is stable: x goes after every element whose key is not greater
RECURSIVE InsertSorted(_, _)
InsertSorted(x, s) ==
    IF s = <<>> THEN <<x>>
    ELSE IF SortKeyLess(x, Head(s)) THEN <<x>> \o s
    ELSE <<Head(s)>> \o InsertSorted(x, Tail(s))

RECURSIVE SortFrom(_, _)
SortFrom(ss, acc) ==
    IF ss = <<>> THEN acc ELSE SortFrom(Tail(ss), InsertSorted(Head(ss), acc))

SortSpecsByCostAndCapacity(ss) == SortFrom(ss, <<>>)

----------------------------------------------------------------------------
(* Dispatch solver.                                                        *)

\* _iter_feasible_units with the floor of the range at 1 instead of
\* max(min_units, 1)
IterFeasibleUnitsIgnoringMin(spec, rem) ==
    LET max_assignable == Min(spec.max_units, rem)
    IN  IF max_assignable <= 0 THEN <<0>>
        ELSE [k \in 1..max_assignable |-> k]

\* the unit counts _iter_feasible_units yields, in the order it yields them
IterFeasibleUnits(spec, rem) ==
    LET max_assignable == Min(spec.max_units, rem)
    IN  IF max_assignable <= 0 THEN <<0>>
        ELSE LET start == Max(spec.min_units, 1)
             IN  IF start <= max_assignable
                 THEN [k \in 1..(max_assignable - start + 1) |-> start + k - 1]
                 ELSE <<>>

\* min_cost(index, remaining) of _solve_dispatch; index counts from 0
RECURSIVE MinCost(_, _, _)
Candidate(ss, index, rem, units) ==
    CostAdd(units * ss[index + 1].cost_per_unit, MinCost(ss, index + 1, rem - units))

MinCost(ss, index, rem) ==
    IF rem < 0 THEN Inf
    ELSE IF index = Len(ss) THEN (IF rem = 0 THEN 0 ELSE Inf)
    ELSE LET feasible == IterFeasibleUnits(ss[index + 1], rem)
             finite == {Candidate(ss, index, rem, feasible[k]) : k \in 1..Len(feasible)} \ {Inf}
         IN  IF finite = {} THEN Inf ELSE SetMin(finite)

\* the reconstruction round without the comparison to the target cost
ChosenUnitsFirstFeasible(ss, idx, rem) ==
    LET feasible == IterFeasibleUnits(ss[idx + 1], rem)
    IN  IF feasible = <<>> THEN 0 ELSE feasible[1]

\* one round of the reconstruction loop: the first feasible unit count whose
\* candidate cost is close to the target, 0 when there is none
ChosenUnits(ss, idx, rem) ==
    LET target_cost == MinCost(ss, idx, rem)
        feasible == IterFeasibleUnits(ss[idx + 1], rem)
        matching == {k \in 1..Len(feasible) :
                        IsClose(Candidate(ss, idx, rem, feasible[k]), target_cost)}
    IN  IF matching = {} THEN 0 ELSE feasible[SetMin(matching)]

\* the units _solve_dispatch yields from position idx on
RECURSIVE Reconstruct(_, _, _)
Reconstruct(ss, idx, rem) ==
    IF idx = Len(ss) THEN <<>>
    ELSE LET chosen_units == ChosenUnits(ss, idx, rem)
         IN  <<chosen_units>> \o Reconstruct(ss, idx + 1, rem - chosen_units)

----------------------------------------------------------------------------
(* Plan assembler.                                                         *)

\* the map keyed by the position in the sorted order instead of original_index
UnitsBySortedPosition(ss, units) ==
    [i \in 0..(Min(Len(ss), Len(units)) - 1) |-> units[i + 1]]

\* {spec.original_index: units for spec, units in zip(sorted_specs, assignment_units)}
\* a later pair overwrites an earlier one with the same key
UnitsByIndex(ss, units) ==
    LET n == Min(Len(ss), Len(units))
        keys == {ss[k].original_index : k \in 1..n}
    IN  [i \in keys |->
            units[CHOOSE k \in 1..n : ss[k].original_index = i
                                      /\ \A j \in 1..n : ss[j].original_index = i => j <= k]]

\* units_by_index.get(idx, 0)
UnitsOf(by_index, idx) == IF idx \in DOMAIN by_index THEN by_index[idx] ELSE 0

AssemblePlan(powerplants, by_index) ==
    [i \in 1..Len(powerplants) |->
        [name |-> powerplants[i].name, p |-> FromUnits(UnitsOf(by_index, i - 1))]]

----------------------------------------------------------------------------
(* Requests.                                                               *)

\* the API validates with app.models.payload, which has no pmin <= pmax check
PlantOf(i, d) ==
    [name |-> <<"plant", i>>, type |-> d.type, efficiency |-> d.efficiency,
     pmin |-> d.pmin, pmax |-> d.pmax]

Descriptors ==
    [type : PowerPlantType, efficiency : EfficiencyValues,
     pmin : PminValues, pmax : PmaxValues]

Fleets ==
    UNION {{[i \in 1..n |-> PlantOf(i, f[i])] : f \in [1..n -> Descriptors]} : n \in PlantCounts}

FuelBreakdowns ==
    [gas_euro_mwh : GasPrices, kerosine_euro_mwh : KerosinePrices,
     co2_euro_ton : Co2Prices, wind_percentage : WindPercentages]

Requests == [load : LoadValues, fuels : FuelBreakdowns, powerplants : Fleets]

----------------------------------------------------------------------------
(* The handler and the generator it returns.                               *)

Init ==
    /\ payload \in Requests
    /\ handler = "entered"
    /\ completed_logged = FALSE
    /\ pc = "not_started"
    /\ specs = <<>>
    /\ load_units = 0
    /\ sorted_specs = <<>>
    /\ min_cost_evaluated = FALSE
    /\ assignment_units = <<>>
    /\ remaining = 0
    /\ units_by_index = <<>>
    /\ plan = <<>>
    /\ error = "none"
    /\ error_in_try = FALSE

\* calculate_production_plan, lines 21-26: the call of build_production_plan
\* inside the try block creates a generator object and runs none of its body,
\* so no exception can reach the except clauses
CallBuildProductionPlan ==
    /\ handler = "entered"
    /\ handler' = "after_try"
    /\ pc' = "created"
    /\ UNCHANGED <<payload, completed_logged, specs, load_units, sorted_specs,
                   min_cost_evaluated, assignment_units, remaining,
                   units_by_index, plan, error, error_in_try>>

\* calculate_production_plan, lines 40-44
LogCompletedAndReturn ==
    /\ handler = "after_try"
    /\ handler' = "returned"
    /\ completed_logged' = TRUE
    /\ UNCHANGED <<payload, pc, specs, load_units, sorted_specs,
                   min_cost_evaluated, assignment_units, remaining,
                   units_by_index, plan, error, error_in_try>>

\* the body runs when the returned generator is iterated by the framework
Iterating == handler = "returned"

\* build_production_plan, lines 47-48
BuildSpecsStep ==
    /\ Iterating
    /\ pc = "created"
    /\ specs' = BuildSpecs(payload.powerplants, payload.fuels)
    /\ load_units' = ToUnits(payload.load, 100)
    /\ pc' = "specs_built"
    /\ UNCHANGED <<payload, handler, completed_logged, sorted_specs,
                   min_cost_evaluated, assignment_units, remaining,
                   units_by_index, plan, error, error_in_try>>

\* the capacity test with >= in place of >
CapacityExceededOrEqual(ss, load) == load >= TotalCapacity(ss)

CapacityExceeded(ss, load) == load > TotalCapacity(ss)

\* build_production_plan, lines 49-51
CheckCapacity ==
    /\ Iterating
    /\ pc = "specs_built"
    /\ IF CapacityExceeded(specs, load_units)
       THEN /\ error' = CapacityExceededMsg
            /\ error_in_try' = (handler = "in_try")
            /\ pc' = "failed"
       ELSE /\ pc' = "capacity_checked"
            /\ UNCHANGED <<error, error_in_try>>
    /\ UNCHANGED <<payload, handler, completed_logged, specs, load_units,
                   sorted_specs, min_cost_evaluated, assignment_units,
                   remaining, units_by_index, plan>>

\* build_production_plan, line 53
SortSpecs ==
    /\ Iterating
    /\ pc = "capacity_checked"
    /\ sorted_specs' = SortSpecsByCostAndCapacity(specs)
    /\ pc' = "sorted"
    /\ UNCHANGED <<payload, handler, completed_logged, specs, load_units,
                   min_cost_evaluated, assignment_units, remaining,
                   units_by_index, plan, error, error_in_try>>

\* build_production_plan, lines 54-56: _solve_dispatch is a generator too, the
\* dict comprehension runs it to the end
SolveDispatch ==
    /\ Iterating
    /\ pc = "sorted"
    /\ min_cost_evaluated' = TRUE
    /\ IF MinCost(sorted_specs, 0, load_units) = Inf
       THEN /\ error' = UnsatisfiableMsg
            /\ error_in_try' = (handler = "in_try")
            /\ pc' = "failed"
            /\ UNCHANGED <<assignment_units, remaining, units_by_index>>
       ELSE /\ assignment_units' = Reconstruct(sorted_specs, 0, load_units)
            /\ remaining' = load_units - SumSeq(assignment_units')
            /\ units_by_index' = UnitsByIndex(sorted_specs, assignment_units')
            /\ pc' = "solved"
            /\ UNCHANGED <<error, error_in_try>>
    /\ UNCHANGED <<payload, handler, completed_logged, specs, load_units,
                   sorted_specs, plan>>

\* build_production_plan, lines 57-59
YieldPlan ==
    /\ Iterating
    /\ pc = "solved"
    /\ plan' = AssemblePlan(payload.powerplants, units_by_index)
    /\ pc' = "done"
    /\ UNCHANGED <<payload, handler, completed_logged, specs, load_units,
                   sorted_specs, min_cost_evaluated, assignment_units,
                   remaining, units_by_index, error, error_in_try>>

Next ==
    \/ CallBuildProductionPlan
    \/ LogCompletedAndReturn
    \/ BuildSpecsStep
    \/ CheckCapacity
    \/ SortSpecs
    \/ SolveDispatch
    \/ YieldPlan

Spec == Init /\ [][Next]_vars

----------------------------------------------------------------------------
(* Properties.                                                             *)

InvalidPayloadError == "InvalidPayloadError"

Returned == pc = "done"
CapacityChecked == pc \notin {"not_started", "created", "specs_built"}
PlantIndices == 1..Len(specs)
AllocatedUnits(i) == UnitsOf(units_by_index, i - 1)
SeqRange(s) == {s[k] : k \in 1..Len(s)}

\* every way to give each plant between 0 and load_units units
Allocations == [PlantIndices -> 0..load_units]
AllocationSum(a) == SumSeq([i \in PlantIndices |-> a[i]])
AllocationCost(a) == SumSeq([i \in PlantIndices |-> a[i] * specs[i].cost_per_unit])
MeetsLoad(a) == AllocationSum(a) = load_units

\* C1: when a plan is returned for specs with min_units <= max_units, no
\* allocation that gives each plant 0 or a count in [max(min_units, 1),
\* max_units] and sums to load_units costs strictly less than the plan.
C1_Optimality ==
    (Returned /\ \A i \in PlantIndices : specs[i].min_units <= specs[i].max_units)
    => ~ \E a \in Allocations :
            /\ \A i \in PlantIndices :
                  \/ a[i] = 0
                  \/ Max(specs[i].min_units, 1) <= a[i] /\ a[i] <= specs[i].max_units
            /\ MeetsLoad(a)
            /\ AllocationCost(a) < AllocationCost([i \in PlantIndices |-> AllocatedUnits(i)])

\* C2: whenever a plan is returned, the units allocated over all plants sum
\* to load_units and the reconstruction walk ends with remaining = 0.
C2_Feasibility ==
    /\ pc \in {"solved", "done"} =>
          /\ SumSeq([i \in PlantIndices |-> AllocatedUnits(i)]) = load_units
          /\ remaining = 0
    /\ Returned =>
          SumSeq([i \in 1..Len(plan) |-> plan[i].p]) = FromUnits(load_units)

C2_Witness ==
    /\ Returned
    /\ \E i, j \in PlantIndices :
          i # j /\ AllocatedUnits(i) > 0 /\ AllocatedUnits(j) > 0

\* C3: in every returned plan a plant's units are 0 or within [min_units,
\* max_units] of its spec, where a wind plant has minimum 0 and a maximum
\* that is pmax scaled by the wind percentage, rounded to a unit.
C3_Bounds ==
    Returned =>
        \A i \in PlantIndices :
            LET u == plan[i].p \div 10
                plant == payload.powerplants[i]
                scaled == plant.pmax * payload.fuels.wind_percentage
            IN  /\ u = 0 \/ (specs[i].min_units <= u /\ u <= specs[i].max_units)
                /\ u <= specs[i].max_units
                /\ plant.type = WIND =>
                      /\ specs[i].min_units = 0
                      /\ 1000 * specs[i].max_units <= scaled + 500
                      /\ scaled - 500 <= 1000 * specs[i].max_units
                /\ plant.type # WIND => 10 * specs[i].max_units = plant.pmax

C3_Witness ==
    /\ Returned
    /\ \E i, j \in PlantIndices :
          /\ payload.powerplants[i].type = WIND
          /\ payload.fuels.wind_percentage = 50
          /\ AllocatedUnits(i) > 0
          /\ payload.powerplants[j].type # WIND
          /\ specs[j].min_units > 1
          /\ AllocatedUnits(j) = specs[j].min_units

\* C4: the "Unable to satisfy load" error is raised exactly when the total
\* capacity covers load_units and no allocation giving each plant 0 or a
\* count in [min_units, max_units] sums to load_units.
C4_UnsatisfiableExactly ==
    min_cost_evaluated =>
        (error = UnsatisfiableMsg
         <=> /\ TotalCapacity(specs) >= load_units
             /\ ~ \E a \in Allocations :
                     /\ \A i \in PlantIndices :
                           \/ a[i] = 0
                           \/ specs[i].min_units <= a[i] /\ a[i] <= specs[i].max_units
                     /\ MeetsLoad(a))

\* C5: the "Requested load exceeds available capacity" error is raised if and
\* only if the sum of max_units is strictly less than load_units, and then
\* nothing has been sorted and min_cost has not been evaluated.
C5_CapacityExceeded ==
    /\ CapacityChecked =>
          (error = CapacityExceededMsg
           <=> SumSeq([i \in PlantIndices |-> specs[i].max_units]) < load_units)
    /\ error = CapacityExceededMsg =>
          sorted_specs = <<>> /\ ~min_cost_evaluated /\ pc = "failed"

C5_Witness ==
    /\ error = CapacityExceededMsg
    /\ \E i \in PlantIndices : specs[i].max_units > 0

\* C6: a plant whose adjusted min_units exceeds its adjusted max_units makes
\* spec construction fail with an InvalidInput error before the capacity
\* check, and no such spec reaches the solver.
C6_InvalidInput ==
    /\ (\E i \in PlantIndices : specs[i].min_units > specs[i].max_units)
          => pc = "failed" /\ error = InvalidPayloadError
    /\ \A k \in 1..Len(sorted_specs) :
          sorted_specs[k].min_units <= sorted_specs[k].max_units

\* C7: a returned plan has one entry per input plant in input order; entry i
\* has the name of input plant i and the units the solver gave to the spec
\* whose original_index is i.
C7_PlanAssembly ==
    Returned =>
        /\ Len(plan) = Len(payload.powerplants)
        /\ \A i \in 1..Len(plan) :
              /\ plan[i].name = payload.powerplants[i].name
              /\ \E k \in 1..Len(sorted_specs) :
                    /\ sorted_specs[k].original_index = i - 1
                    /\ plan[i].p = FromUnits(assignment_units[k])

C7_Witness ==
    /\ Returned
    /\ \E k \in 1..Len(sorted_specs) :
          /\ sorted_specs[k].original_index # k - 1
          /\ assignment_units[k] # assignment_units[sorted_specs[k].original_index + 1]

\* C8: for every spec and every remaining >= 0 the unit counts enumerated are
\* {0} together with max(min_units, 1)..min(max_units, remaining).
C8_FeasibleUnitCounts ==
    \A i \in PlantIndices : \A rem \in 0..load_units :
        SeqRange(IterFeasibleUnits(specs[i], rem))
            = {0} \cup (Max(specs[i].min_units, 1)..Min(specs[i].max_units, rem))

\* C9: the sorted specs are a permutation of the specs in ascending
\* cost_per_unit and, at equal cost_per_unit, descending max_units.
C9_MeritOrderSort ==
    pc \in {"sorted", "solved", "done"} =>
        /\ Len(sorted_specs) = Len(specs)
        /\ SeqRange(sorted_specs) = SeqRange(specs)
        /\ \A k \in 1..(Len(sorted_specs) - 1) :
              \/ sorted_specs[k].cost_per_unit < sorted_specs[k + 1].cost_per_unit
              \/ /\ sorted_specs[k].cost_per_unit = sorted_specs[k + 1].cost_per_unit
                 /\ sorted_specs[k].max_units >= sorted_specs[k + 1].max_units

\* C10: a DispatchComputationError is raised while the handler is inside its
\* try block, and "Production plan computation completed" is logged only
\* after the computation has run to its end without error.
C10_ErrorReportingOrder ==
    /\ error \in {CapacityExceededMsg, UnsatisfiableMsg} => error_in_try
    /\ completed_logged => Returned

====
